---- MODULE Spec2Model ----
(***************************************************************************)
(* Model of the task execution path of IdeaForge: runCmd (commands/run.ts) *)
(* driving TaskExecutionOrchestrator.executeTasks (agents/worker.ts) and   *)
(* ReviewLoopOrchestrator.runReviewLoop (the reviewer agent), and the rows *)
(* runCmd writes to the tasks table.                                       *)
(*                                                                         *)
(* Task ids T-001, T-002, ... are the numbers 1, 2, ...  A task object     *)
(* carries the schema's field dependsOn and may carry the property         *)
(* `dependencies`, which is the one topologicalSort reads.  A task object  *)
(* produced by SpecSchema.parse has no `dependencies` property (zod strips *)
(* keys the schema does not declare): there the property reads as          *)
(* undefined.  Both kinds of task objects are drawn in Init.               *)
(*                                                                         *)
(* Specifications: Spec (one run, every --parallel value), DefaultSpec     *)
(* (one run, default options), DispatchSpec (executeTasks on task lists in *)
(* any listing order), VotingSpec (a run with --voting), SignalSpec (a run *)
(* with the SIGINT/SIGTERM listeners), RerunSpec (runs repeated on the     *)
(* same project), AllSpec (allCmd: compile, run, review, aggregate), and   *)
(* three functions called on their own: GenerateSpec (generateTasks of the *)
(* spec assembler), ScoreSpec (the score of reviewTask), PassingSpec       *)
(* (isReviewPassing and createFailedReviewReport).                         *)
(***************************************************************************)
EXTENDS Integers, Sequences, FiniteSets, TLC

\* ------------------------------------------------------------------ bounds
MaxTasks == 2
MaxDeps == 1
\* Runs of the same project that write to its tasks table.
MaxRuns == 2

\* ------------------------------------------------------------------ values
Null == "null"
\* A JavaScript number: an integer value, or NaN.
Number(v) == [nan |-> FALSE, value |-> v]
NaN == [nan |-> TRUE, value |-> 0]
\* exitCode while the process has not exited.
\* What a function called on its own returned: nothing yet, or a value.
NoReturn == [called |-> FALSE]
Returned(v) == [called |-> TRUE, value |-> v]
NotExited == -1
NoError == [name |-> "none", tasks |-> {}]
NoResult == [taskId |-> 0, status |-> "none", call |-> 0]

\* new ReviewLoopOrchestrator(options.model, 3)
MaxIterations == 3

WorkerStatuses == {"completed", "failed", "needs_review"}
ReviewStatuses == {"approved", "needs_changes", "rejected"}

\* The --parallel strings the runs are started with.
ParallelOptions == {<<"0">>, <<"1">>, <<"2">>}

\* ------------------------------------------------------------------ helpers
Range(s) == {s[x] : x \in DOMAIN s}

IsDigit(c) == c \in {"0", "1", "2", "3", "4", "5", "6", "7", "8", "9"}

DigitValue(c) ==
  CASE c = "0" -> 0 [] c = "1" -> 1 [] c = "2" -> 2 [] c = "3" -> 3 [] c = "4" -> 4
    [] c = "5" -> 5 [] c = "6" -> 6 [] c = "7" -> 7 [] c = "8" -> 8 [] c = "9" -> 9

RECURSIVE ParseDigits(_, _, _)
\* The value of the leading decimal digits of s from position p on, acc so far.
ParseDigits(s, p, acc) ==
  IF p > Len(s) \/ ~IsDigit(s[p]) THEN acc
  ELSE ParseDigits(s, p + 1, 10 * acc + DigitValue(s[p]))

\* parseInt(s, 10): optional sign, then the leading digits; NaN when there are none.
ParseInt(s) ==
  LET neg == Len(s) >= 1 /\ s[1] = "-"
      first == IF Len(s) >= 1 /\ s[1] \in {"-", "+"} THEN 2 ELSE 1
  IN IF first > Len(s) \/ ~IsDigit(s[first]) THEN NaN
     ELSE IF neg THEN Number(0 - ParseDigits(s, first, 0))
     ELSE Number(ParseDigits(s, first, 0))

\* ------------------------------------------------------------------ inputs
\* Dependency lists of a task of an n-task set: ids 1..n are tasks of the set,
\* id n+1 names no task.
\* The lists are ascending and without repetition.
DepLists(n) ==
  {d \in UNION {[1..len -> 1..(n + 1)] : len \in 0..MaxDeps} :
      \A x, y \in DOMAIN d : x < y => d[x] < d[y]}

\* A task object as TaskSchema declares it, with or without the property
\* `dependencies` that TaskSchema does not declare.
TaskObject(id, deps, hasDeps) ==
  IF hasDeps THEN [id |-> id, dependsOn |-> deps, dependencies |-> deps]
  ELSE [id |-> id, dependsOn |-> deps]

\* Task lists listed T-001..T-00n.
TaskLists ==
  {[x \in DOMAIN f |-> TaskObject(x, f[x], hasDeps)] :
      f \in UNION {[1..n -> DepLists(n)] : n \in 1..MaxTasks}, hasDeps \in BOOLEAN}

\* task.dependencies is not undefined: the object has the property.
HasDependencies(task) == "dependencies" \in DOMAIN task

\* ------------------------------------------------------------------ topologicalSort
CircularDependency(taskId) == [name |-> "CircularDependency", tasks |-> {taskId}]
TypeError == [name |-> "TypeError", tasks |-> {}]

\* new Map(tasks.map((t) => [t.id, t])): the last task listed under an id.
TaskMapHas(tasks, taskId) == \E x \in DOMAIN tasks : tasks[x].id = taskId
TaskMapGet(tasks, taskId) ==
  tasks[CHOOSE x \in DOMAIN tasks :
          /\ tasks[x].id = taskId
          /\ \A y \in DOMAIN tasks : tasks[y].id = taskId => y <= x]

RECURSIVE visit(_, _, _)
RECURSIVE visitDeps(_, _, _, _)

\* for (const depId of task.dependencies) visit(depId), from position p on.
visitDeps(tasks, deps, p, st) ==
  IF p > Len(deps) \/ st.error # NoError THEN st
  ELSE visitDeps(tasks, deps, p + 1, visit(tasks, deps[p], st))

\* st = [visited, visiting, result, error]; error # NoError is a thrown exception.
visit(tasks, taskId, st) ==
  IF st.error # NoError THEN st
  ELSE IF taskId \in st.visiting THEN [st EXCEPT !.error = CircularDependency(taskId)]
  ELSE IF taskId \in st.visited THEN st
  ELSE IF ~TaskMapHas(tasks, taskId) THEN st
  ELSE LET task == TaskMapGet(tasks, taskId)
           st1 == [st EXCEPT !.visiting = @ \cup {taskId}]
       IN IF ~HasDependencies(task) THEN [st1 EXCEPT !.error = TypeError]
          ELSE LET st2 == visitDeps(tasks, task.dependencies, 1, st1)
               IN IF st2.error # NoError THEN st2
                  ELSE [st2 EXCEPT !.visiting = @ \ {taskId},
                                   !.visited = @ \cup {taskId},
                                   !.result = Append(@, task)]

\* The p-th smallest id of the tasks.
IdOfRank(tasks, p) ==
  CHOOSE id \in {tasks[x].id : x \in DOMAIN tasks} :
      Cardinality({tasks[x].id : x \in DOMAIN tasks} \cap 1..id) = p

RECURSIVE visitAllById(_, _, _)
\* visitAll had the tasks been visited in ascending order of their ids
\* instead of the order of the list.
visitAllById(tasks, p, st) ==
  IF p > Len(tasks) \/ st.error # NoError THEN st
  ELSE visitAllById(tasks, p + 1, visit(tasks, IdOfRank(tasks, p), st))

RECURSIVE visitAll(_, _, _)
\* for (const task of tasks) visit(task.id), from position p on.
visitAll(tasks, p, st) ==
  IF p > Len(tasks) \/ st.error # NoError THEN st
  ELSE visitAll(tasks, p + 1, visit(tasks, tasks[p].id, st))

topologicalSort(tasks) ==
  visitAll(tasks, 1, [visited |-> {}, visiting |-> {}, result |-> <<>>, error |-> NoError])

\* ------------------------------------------------------------------ state
VARIABLES
  options,        \* RunOptions: [parallel |-> the --parallel string]
  tasks,          \* spec.tasks, as listed
  pc,             \* where runCmd stands
  parallelCount,  \* parseInt(options.parallel, 10); NaN before it is parsed
  error,          \* the exception runCmd caught (NoError: none)
  exitCode,       \* process.exit code (NotExited: the process runs)
  sortedTasks,    \* executeTasks: const sortedTasks
  k,              \* executeTasks: position of the for loop in sortedTasks
  inFlight,       \* ids of the tasks whose executeTask call is awaited
  results,        \* executeTasks: const results
  workerCalls,    \* every executeTask call made: [taskId, feedback]
  workerResults,  \* runCmd: const workerResults
  i,              \* runCmd: index of the review for loop (1-based)
  it,             \* runReviewLoop: loop counter i (0-based), 0 outside the loop
  iterations,     \* runReviewLoop: const iterations
  currentResult,  \* runReviewLoop: let currentResult
  loopReturns,    \* what each runReviewLoop call returned
  reviewResults,  \* runCmd: const reviewResults
  tasksTable,     \* rows of the tasks table, in insertion order
  j,              \* runCmd: position of the save for loop in reviewResults
  projectStatus,  \* projects.status of the project record
  tracesTable,    \* the rows of the traces table
  allPc,          \* where allCmd stands ("none": runCmd was called on its own)
  dryRun,         \* options.dryRun of allCmd
  steps,          \* the steps allCmd has started, in order
  outcomes,       \* for each step that ended: whether it returned (TRUE) or exited
  callArgs,       \* the arguments of a function called on its own (Null: none)
  callReturn      \* what that call returned (NoReturn: not called yet)

vars == <<options, tasks, pc, parallelCount, error, exitCode, sortedTasks, k, inFlight,
          results, workerCalls, workerResults, i, it, iterations, currentResult,
          loopReturns, reviewResults, tasksTable, j, projectStatus, tracesTable,
          allPc, dryRun, steps, outcomes, callArgs, callReturn>>

execVars == <<sortedTasks, k, inFlight, results, workerCalls, workerResults>>
loopVars == <<it, iterations, currentResult>>
reviewVars == <<i, it, iterations, currentResult, loopReturns, reviewResults>>
saveVars == <<tasksTable, j, projectStatus, tracesTable>>
allVars == <<allPc, dryRun, steps, outcomes>>
callVars == <<callArgs, callReturn>>

Init ==
  /\ options \in {[parallel |-> s] : s \in ParallelOptions}
  /\ tasks \in TaskLists
  /\ pc = "start"
  /\ parallelCount = NaN
  /\ error = NoError
  /\ exitCode = NotExited
  /\ sortedTasks = <<>>
  /\ k = 1
  /\ inFlight = {}
  /\ results = <<>>
  /\ workerCalls = <<>>
  /\ workerResults = <<>>
  /\ i = 1
  /\ it = 0
  /\ iterations = <<>>
  /\ currentResult = NoResult
  /\ loopReturns = <<>>
  /\ reviewResults = <<>>
  /\ tasksTable = <<>>
  /\ j = 1
  /\ projectStatus = "COMPILED"
  /\ tracesTable = <<>>
  /\ callArgs = Null
  /\ callReturn = NoReturn
  /\ allPc = "none"
  /\ dryRun = FALSE
  /\ steps = <<>>
  /\ outcomes = <<>>

\* ------------------------------------------------------------------ runCmd, executeTasks
\* runCmd up to the call of executeTasks: the options are read and logged, the
\* project and its spec are loaded; nothing is checked about --parallel.
RunCmdStart ==
  /\ pc = "start"
  /\ parallelCount' = ParseInt(options.parallel)
  /\ pc' = "executeTasks"
  /\ UNCHANGED <<callVars, allVars, options, tasks, error, exitCode, execVars, reviewVars, saveVars>>

\* executeTask called for every task of a list, none returned yet.
CallsOf(list) == [x \in DOMAIN list |-> [taskId |-> list[x].id, feedback |-> Null]]

\* ExecuteTasksSort had each task been executed as soon as the sort emitted
\* it: the tasks emitted before the error have been dispatched.
ExecuteTasksSortWhileExecuting ==
  /\ pc = "executeTasks"
  /\ LET st == topologicalSort(tasks)
     IN IF st.error # NoError
        THEN /\ error' = st.error
             /\ exitCode' = 2
             /\ pc' = "exit"
             /\ workerCalls' = CallsOf(st.result)
             /\ UNCHANGED sortedTasks
        ELSE /\ sortedTasks' = st.result
             /\ pc' = "workers"
             /\ UNCHANGED <<error, exitCode, workerCalls>>
  /\ UNCHANGED <<callVars, allVars, options, tasks, parallelCount, k, inFlight, results,
                 workerResults, reviewVars, saveVars>>

\* executeTasks up to its for loop: topologicalSort(tasks). What it throws
\* leaves executeTasks and is caught by runCmd, which exits with code 2.
ExecuteTasksSort ==
  /\ pc = "executeTasks"
  /\ LET st == topologicalSort(tasks)
     IN IF st.error # NoError
        THEN /\ error' = st.error
             /\ exitCode' = 2
             /\ pc' = "exit"
             /\ UNCHANGED sortedTasks
        ELSE /\ sortedTasks' = st.result
             /\ pc' = "workers"
             /\ UNCHANGED <<error, exitCode>>
  /\ UNCHANGED <<callVars, allVars, options, tasks, parallelCount, k, inFlight, results, workerCalls,
                 workerResults, reviewVars, saveVars>>

\* WorkerStart had the loop not awaited executeTask: the next task is
\* started while earlier calls are still in flight.
WorkerStartWithoutAwait(t) ==
  /\ pc = "workers"
  /\ k + Cardinality(inFlight) <= Len(sortedTasks)
  /\ t = sortedTasks[k + Cardinality(inFlight)].id
  /\ inFlight' = inFlight \cup {t}
  /\ workerCalls' = Append(workerCalls, [taskId |-> t, feedback |-> Null])
  /\ UNCHANGED <<callVars, allVars, options, tasks, pc, parallelCount, error, exitCode, sortedTasks, k,
                 results, workerResults, reviewVars, saveVars>>

\* for (const task of sortedTasks): await this.workerAgent.executeTask(task, context)
\* is called for the next task of the loop; executeTask takes no feedback.
WorkerStart(t) ==
  /\ pc = "workers"
  /\ inFlight = {}
  /\ k <= Len(sortedTasks)
  /\ t = sortedTasks[k].id
  /\ inFlight' = {t}
  /\ workerCalls' = Append(workerCalls, [taskId |-> t, feedback |-> Null])
  /\ UNCHANGED <<callVars, allVars, options, tasks, pc, parallelCount, error, exitCode, sortedTasks, k,
                 results, workerResults, reviewVars, saveVars>>

\* The awaited executeTask call returns its WorkerResult (executeTask catches
\* what its body throws and returns status "failed"); results.push(result).
\* call: which executeTask call built the result object.
WorkerReturn(t, status) ==
  /\ pc = "workers"
  /\ t \in inFlight
  /\ results' = Append(results, [taskId |-> t, status |-> status, call |-> Len(workerCalls)])
  /\ inFlight' = inFlight \ {t}
  /\ k' = k + 1
  /\ UNCHANGED <<callVars, allVars, options, tasks, pc, parallelCount, error, exitCode, sortedTasks,
                 workerCalls, workerResults, reviewVars, saveVars>>

\* executeTasks returns results; runCmd enters its review for loop.
ExecuteTasksReturn ==
  /\ pc = "workers"
  /\ inFlight = {}
  /\ k > Len(sortedTasks)
  /\ workerResults' = results
  /\ pc' = "review"
  /\ UNCHANGED <<callVars, allVars, options, tasks, parallelCount, error, exitCode, sortedTasks, k,
                 inFlight, results, workerCalls, reviewVars, saveVars>>

\* ------------------------------------------------------------------ runReviewLoop
\* One review as runReviewLoop keeps it: the reviewer's status and the
\* WorkerResult that was handed to reviewTask.
Review(taskId, status, reviewed) ==
  [taskId |-> taskId, status |-> status, reviewed |-> reviewed]

\* LoopEnds had the loop no break: it ends when the loop counter runs out.
LoopEndsAtMaxOnly(status, n) == ~(n + 1 < MaxIterations)

\* LoopEnds had the approved branch no break.
LoopEndsOnRejectedOnly(status, n) ==
  \/ status = "rejected"
  \/ ~(n + 1 < MaxIterations)

\* LoopEnds had the rejected branch no break.
LoopEndsOnApprovedOnly(status, n) ==
  \/ status = "approved"
  \/ ~(n + 1 < MaxIterations)

\* Whether the for loop of runReviewLoop ends after a review with this status
\* in the pass with loop counter n: break on approved and on rejected, and
\* the loop condition n + 1 < maxIterations.
LoopEnds(status, n) ==
  \/ status = "approved"
  \/ status = "rejected"
  \/ ~(n + 1 < MaxIterations)

\* The candidate the next pass of the loop reviews after a needs_changes
\* review: the same result (the fix is a TODO, no worker is called).
NextCandidate(cur, review) == cur

\* The reviewResult runCmd records for a task whose worker result is "failed".
FailedTaskReview(taskId) == Review(taskId, "rejected", NoResult)

\* runCmd reviews spec.tasks[i] with workerResults[i]; a failed worker result
\* is not reviewed and recorded as rejected.
SkipReview ==
  /\ pc = "review"
  /\ i <= Len(tasks)
  /\ workerResults[i].status = "failed"
  /\ reviewResults' = Append(reviewResults,
        [task |-> tasks[i].id, workerResult |-> workerResults[i],
         reviewResult |-> FailedTaskReview(tasks[i].id)])
  /\ i' = i + 1
  /\ UNCHANGED <<callVars, allVars, options, tasks, pc, parallelCount, error, exitCode, execVars,
                 loopVars, loopReturns, saveVars>>

\* One pass of the for loop of runReviewLoop(workerResults[i], spec.tasks[i]):
\* the awaited reviewTask call returns a review with the given status. When the
\* loop ends, runReviewLoop returns and runCmd records finalReview.
ReviewTask(status) ==
  /\ pc = "review"
  /\ i <= Len(tasks)
  /\ workerResults[i].status # "failed"
  /\ LET cur == IF it = 0 THEN workerResults[i] ELSE currentResult
         review == Review(tasks[i].id, status, cur)
         its == Append(iterations, review)
     IN IF LoopEnds(status, it)
        THEN /\ loopReturns' = Append(loopReturns,
                  [taskId |-> tasks[i].id, finalReview |-> its[Len(its)],
                   iterations |-> its, approved |-> (status = "approved")])
             /\ reviewResults' = Append(reviewResults,
                  [task |-> tasks[i].id, workerResult |-> workerResults[i],
                   reviewResult |-> its[Len(its)]])
             /\ i' = i + 1
             /\ it' = 0
             /\ iterations' = <<>>
             /\ currentResult' = NoResult
        ELSE /\ it' = it + 1
             /\ iterations' = its
             /\ currentResult' = NextCandidate(cur, review)
             /\ UNCHANGED <<i, loopReturns, reviewResults>>
  /\ UNCHANGED <<callVars, allVars, options, tasks, pc, parallelCount, error, exitCode, execVars, saveVars>>

\* The review for loop is over; runCmd goes on to save the results.
ReviewDone ==
  /\ pc = "review"
  /\ i > Len(tasks)
  /\ pc' = "save"
  /\ UNCHANGED <<callVars, allVars, options, tasks, parallelCount, error, exitCode, execVars,
                 reviewVars, saveVars>>

\* ------------------------------------------------------------------ saving
\* The status runCmd writes for a final review status.
PersistedStatus(reviewStatus) ==
  IF reviewStatus = "approved" THEN "APPROVED"
  ELSE IF reviewStatus = "rejected" THEN "FAILED"
  ELSE "NEEDS_CHANGES"

\* CHECK(status IN (...)) of the tasks table.
TasksStatusCheck ==
  {"PENDING", "RUNNING", "NEEDS_CHANGES", "APPROVED", "MERGED", "DONE", "ERROR"}

SqliteConstraint == [name |-> "SqliteConstraint", tasks |-> {}]

\* for (const result of reviewResults) await db.insert(tasks).values(...): a
\* row the table's CHECK refuses makes the insert throw; runCmd catches it
\* and exits with code 2.
SaveResult ==
  /\ pc = "save"
  /\ j <= Len(reviewResults)
  /\ LET row == [taskId |-> reviewResults[j].task,
                 status |-> PersistedStatus(reviewResults[j].reviewResult.status)]
     IN IF row.status \in TasksStatusCheck
        THEN /\ tasksTable' = Append(tasksTable, row)
             /\ j' = j + 1
             /\ UNCHANGED <<pc, error, exitCode>>
        ELSE /\ error' = SqliteConstraint
             /\ exitCode' = 2
             /\ pc' = "exit"
             /\ UNCHANGED <<tasksTable, j>>
  /\ UNCHANGED <<callVars, allVars, options, tasks, parallelCount, execVars, reviewVars, projectStatus,
                 tracesTable>>

ApprovedTasks == {x \in DOMAIN reviewResults : reviewResults[x].reviewResult.status = "approved"}

\* Step 7: projects.status is ASSEMBLED when every review result is approved,
\* RUNNING otherwise; runCmd returns.
UpdateProject ==
  /\ pc = "save"
  /\ j > Len(reviewResults)
  /\ projectStatus' = IF Cardinality(ApprovedTasks) = Len(reviewResults)
                      THEN "ASSEMBLED" ELSE "RUNNING"
  /\ pc' = "done"
  /\ UNCHANGED <<callVars, allVars, options, tasks, parallelCount, error, exitCode, execVars,
                 reviewVars, tasksTable, j, tracesTable>>

\* ------------------------------------------------------------------ specification
Next ==
  \/ RunCmdStart
  \/ ExecuteTasksSort
  \/ \E t \in 1..MaxTasks : WorkerStart(t)
  \/ \E t \in 1..MaxTasks, status \in WorkerStatuses : WorkerReturn(t, status)
  \/ ExecuteTasksReturn
  \/ SkipReview
  \/ \E status \in ReviewStatuses : ReviewTask(status)
  \/ ReviewDone
  \/ SaveResult
  \/ UpdateProject

Spec == Init /\ [][Next]_vars

\* runCmd called with the default of --parallel.
InitDefault == Init /\ options = [parallel |-> <<"2">>]

DefaultSpec == InitDefault /\ [][Next]_vars

\* ------------------------------------------------------------------ vocabulary of the claims
TaskIdSet == {tasks[x].id : x \in DOMAIN tasks}

\* The ids task t names in dependsOn.
DependsOn(t) == Range(TaskMapGet(tasks, t).dependsOn)

RECURSIVE DependsOnWithin(_, _)
\* The ids reached from the ids of S along at most n dependsOn edges.
DependsOnWithin(S, n) ==
  IF n = 0 THEN S
  ELSE DependsOnWithin(S \cup UNION {DependsOn(t) : t \in S \cap TaskIdSet}, n - 1)

\* The ids t depends on, directly or transitively.
Ancestors(t) == DependsOnWithin(DependsOn(t), Len(tasks))

\* The tasks that depend on t, directly or transitively.
Descendants(t) == {d \in TaskIdSet : t \in Ancestors(d)}

HasCycle == \E t \in TaskIdSet : t \in Ancestors(t)
HasDangling == \E t \in TaskIdSet : ~(DependsOn(t) \subseteq TaskIdSet)

\* Every task object carries `dependencies`, equal to its dependsOn.
DependenciesGiven == \A x \in DOMAIN tasks : HasDependencies(tasks[x])

\* A valid task set: acyclic, no dangling dependency, dependencies given.
ValidTaskSet == DependenciesGiven /\ ~HasCycle /\ ~HasDangling

\* The worker (generation) capability was invoked for task t.
Dispatched(t) == \E x \in DOMAIN workerCalls : workerCalls[x].taskId = t

\* The review status runCmd recorded as the outcome of task t.
Outcome(t, status) ==
  \E x \in DOMAIN reviewResults :
      reviewResults[x].task = t /\ reviewResults[x].reviewResult.status = status

\* The task whose review loop is between two reviews.
Reviewing == IF pc = "review" /\ it > 0 THEN {tasks[i].id} ELSE {}

\* The tasks in flight (RUNNING): generation awaited, or under review.
Running == inFlight \cup Reviewing

\* The worker call of task t has returned.
Finished(t) == \E x \in DOMAIN results : results[x].taskId = t

\* t could be started now: not yet dispatched, every dependency finished.
Ready(t) ==
  /\ pc = "workers"
  /\ ~Dispatched(t)
  /\ \A d \in DependsOn(t) : Finished(d)

\* The reviews of every review loop run so far, finished or not.
ReviewHistories == {r.iterations : r \in Range(loopReturns)} \cup {iterations}

\* The tasks on a dependency cycle through c.
CycleOf(c) == {t \in TaskIdSet : t \in Ancestors(c) /\ c \in Ancestors(t)}

\* topologicalSort has run.
GraphBuilt == pc \notin {"start", "executeTasks"}
\* x >= n as JavaScript compares numbers: false for NaN.
AtLeast(x, n) == ~x.nan /\ x.value >= n

\* ------------------------------------------------------------------ claims
\* C1: a task's worker call is started only when every task named in its
\* dependsOn has ended approved (DONE); a dependency that failed or was
\* rejected never lets the dependent start.
C1_DispatchOnlyAfterDependenciesDone ==
  ValidTaskSet =>
      \A t \in inFlight : \A d \in DependsOn(t) : Outcome(d, "approved")

\* C2: if task X ends rejected, no transitive descendant of X is ever
\* dispatched to the worker, and at the end of the run each of them is BLOCKED.
C2_RejectedBlocksDescendants ==
  \A x \in TaskIdSet : \A d \in Descendants(x) :
      (ValidTaskSet /\ Outcome(x, "rejected")) =>
          /\ ~Dispatched(d)
          /\ pc = "done" => \E r \in Range(tasksTable) : r.taskId = d /\ r.status = "BLOCKED"

\* C3: the reviews recorded when a review loop ends are at most maxIterations,
\* and a task is rejected only after exactly maxIterations failing reviews.
C3_RejectedOnlyAfterMaxIterations ==
  ValidTaskSet =>
  /\ \A r \in Range(loopReturns) : Len(r.iterations) <= MaxIterations
  /\ \A x \in DOMAIN reviewResults :
        reviewResults[x].reviewResult.status = "rejected" =>
            \E r \in Range(loopReturns) :
                /\ r.taskId = reviewResults[x].task
                /\ Len(r.iterations) = MaxIterations
                /\ \A v \in Range(r.iterations) : v.status # "approved"

\* C4: a task whose reviews all ask for changes ends rejected with exactly
\* maxIterations reviews in its history, and no row of the tasks table is
\* left NEEDS_CHANGES.
C4_NeverPassingEndsRejected ==
  ValidTaskSet =>
  /\ \A r \in Range(loopReturns) :
        (\A v \in Range(r.iterations) : v.status = "needs_changes") =>
            /\ Len(r.iterations) = MaxIterations
            /\ r.finalReview.status = "rejected"
  /\ \A row \in Range(tasksTable) : row.status # "NEEDS_CHANGES"

\* C5: after a needs_changes review with attempts remaining the worker is
\* called again with the review's issues as feedback, and the next review
\* judges the newly generated result.
C5_RetryRegeneratesWithFeedback ==
  \A h \in ReviewHistories : \A n \in DOMAIN h :
      (ValidTaskSet /\ n > 1) =>
          /\ h[n].reviewed.call # h[n - 1].reviewed.call
          /\ workerCalls[h[n].reviewed.call].feedback # Null

\* C6: for a task set with a dependency cycle, graph building fails with a
\* cycle error that lists every member of the cycle.
C6_CycleErrorListsEveryMember ==
  (GraphBuilt /\ DependenciesGiven /\ HasCycle) =>
      /\ error.name = "CircularDependency"
      /\ \E c \in error.tasks : CycleOf(c) \subseteq error.tasks

\* C7: for a task set with a dependsOn id that names no task of the set, graph
\* building fails with a dangling-dependency error and no task is executed.
C7_DanglingDependencyFails ==
  (GraphBuilt /\ DependenciesGiven /\ HasDangling /\ ~HasCycle) =>
      /\ error.name = "DanglingDependency"
      /\ workerCalls = <<>>

\* C8: when graph building fails, it fails before anything is dispatched: no
\* worker call, no review and no write to the tasks table happened in the run.
GraphBuildFailed == error.name \in {"CircularDependency", "TypeError"}

C10_ReadyTaskStartsBesideRunning ==
  \A t \in TaskIdSet :
      (/\ ValidTaskSet
       /\ AtLeast(parallelCount, 2)
       /\ inFlight # {}
       /\ Cardinality(Running) < parallelCount.value
       /\ Ready(t)) => ENABLED WorkerStart(t)

\* ------------------------------------------------------------------ failure containment
\* The worker call of task x returned status "failed".
WorkerFailed(x) == \E r \in Range(results) : r.taskId = x /\ r.status = "failed"

\* The review for loop of runCmd is over.
ReviewsOver == pc \in {"save", "done"} \/ (pc = "exit" /\ reviewResults # <<>>)

\* What runCmd recorded for task t rests on t's own worker result: the result
\* is t's, and unless it is "failed" a review loop judged it.
ReviewedOwnResult(t) ==
  \E x \in DOMAIN reviewResults :
      /\ reviewResults[x].task = t
      /\ reviewResults[x].workerResult.taskId = t
      /\ \/ reviewResults[x].workerResult.status = "failed"
         \/ \E r \in Range(loopReturns) :
                r.taskId = t /\ \A v \in Range(r.iterations) : v.reviewed.taskId = t

\* C11: a task whose worker failed or that ended rejected never aborts the
\* run, and every task that does not depend on it, directly or transitively,
\* is still executed and reviewed on its own result.
C11_FailureNeverAbortsRun ==
  \A x \in TaskIdSet :
      (ValidTaskSet /\ (WorkerFailed(x) \/ Outcome(x, "rejected"))) =>
          /\ pc # "exit"
          /\ ReviewsOver =>
                \A t \in TaskIdSet \ ({x} \cup Descendants(x)) :
                    Dispatched(t) /\ ReviewedOwnResult(t)

\* ------------------------------------------------------------------ dispatch order
\* The orders in which n tasks can be listed.
Listings(n) == {p \in [1..n -> 1..n] : \A x, y \in 1..n : x # y => p[x] # p[y]}

\* Task lists with ids 1..n listed in any order.
ListedTaskLists ==
  UNION {{[x \in 1..n |-> TaskObject(p[x], f[p[x]], hasDeps)] :
              p \in Listings(n), f \in [1..n -> DepLists(n)], hasDeps \in BOOLEAN} :
         n \in 1..MaxTasks}

\* The state of a run at the entry of runCmd, options and tasks aside.
InitRunState ==
  /\ pc = "start"
  /\ parallelCount = NaN
  /\ error = NoError
  /\ exitCode = NotExited
  /\ sortedTasks = <<>>
  /\ k = 1
  /\ inFlight = {}
  /\ results = <<>>
  /\ workerCalls = <<>>
  /\ workerResults = <<>>
  /\ i = 1
  /\ it = 0
  /\ iterations = <<>>
  /\ currentResult = NoResult
  /\ loopReturns = <<>>
  /\ reviewResults = <<>>
  /\ tasksTable = <<>>
  /\ j = 1
  /\ projectStatus = "COMPILED"
  /\ tracesTable = <<>>
  /\ allPc = "none"
  /\ dryRun = FALSE
  /\ steps = <<>>
  /\ outcomes = <<>>

\* runCmd called with the default --parallel on a spec whose tasks are listed
\* in any order.
InitListed ==
  /\ options = [parallel |-> <<"2">>]
  /\ tasks \in ListedTaskLists
  /\ InitRunState
  /\ callArgs = Null
  /\ callReturn = NoReturn

\* runCmd up to the return of executeTasks.
NextDispatch ==
  \/ RunCmdStart
  \/ ExecuteTasksSort
  \/ \E t \in 1..MaxTasks : WorkerStart(t)
  \/ \E t \in 1..MaxTasks, status \in WorkerStatuses : WorkerReturn(t, status)
  \/ ExecuteTasksReturn

DispatchSpec == InitListed /\ [][NextDispatch]_vars

\* Task t is the task listed at x or one it depends on, directly or transitively.
NeededAt(t, x) == tasks[x].id = t \/ t \in Ancestors(tasks[x].id)

\* The position of the first listed task that is t or depends on t.
FirstNeeded(t) ==
  CHOOSE x \in DOMAIN tasks :
      NeededAt(t, x) /\ \A y \in DOMAIN tasks : y < x => ~NeededAt(t, y)

ReviewsOf(t) ==
  LET returned == {x \in DOMAIN loopReturns : loopReturns[x].taskId = t}
  IN IF returned # {} THEN loopReturns[CHOOSE x \in returned : TRUE].iterations
     ELSE IF pc = "review" /\ i <= Len(tasks) /\ tasks[i].id = t THEN iterations
     ELSE <<>>

\* The executeTask calls made for task t.
CallsFor(t) == {x \in DOMAIN workerCalls : workerCalls[x].taskId = t}

\* The status of the last review made for task t ("none": not reviewed yet).
LastReview(t) ==
  LET h == ReviewsOf(t) IN IF h = <<>> THEN "none" ELSE h[Len(h)].status

\* The status of task t in the run: where it stands between not yet started
\* and its recorded outcome.
TaskStatus(t) ==
  LET last == LastReview(t)
  IN IF last = "approved" \/ Outcome(t, "approved") THEN "APPROVED"
     ELSE IF last = "rejected" \/ Outcome(t, "rejected") THEN "REJECTED"
     ELSE IF last = "needs_changes" THEN "NEEDS_CHANGES"
     ELSE IF Dispatched(t) THEN "RUNNING"
     ELSE "PENDING"

\* The moves of the status in one step; a review is one step, so a task in
\* NEEDS_CHANGES passes RUNNING within the step that reviews it again.
StatusMoves ==
  {<<"PENDING", "RUNNING">>,
   <<"RUNNING", "NEEDS_CHANGES">>, <<"RUNNING", "APPROVED">>, <<"RUNNING", "REJECTED">>,
   <<"NEEDS_CHANGES", "NEEDS_CHANGES">>, <<"NEEDS_CHANGES", "APPROVED">>,
   <<"NEEDS_CHANGES", "REJECTED">>}

PassesOnAttempt(r, n) ==
  /\ n <= Len(r.iterations)
  /\ r.iterations[n].status = "approved"
  /\ \A m \in 1..(n - 1) : r.iterations[m].status # "approved"

\* C14: when the reviews of a task fail on attempts 1..n-1 and pass on
\* attempt n, n at most maxIterations, the review loop returns exactly n
\* reviews, the n-th the passing one, the task is recorded approved, and the
\* row a completed run has saved for it is APPROVED.
C14_ApprovedOnKthAttempt ==
  \A r \in Range(loopReturns) : \A n \in 1..MaxIterations :
      PassesOnAttempt(r, n) =>
          /\ Len(r.iterations) = n
          /\ r.approved
          /\ r.finalReview = r.iterations[n]
          /\ Outcome(r.taskId, "approved")
          /\ \A row \in Range(tasksTable) : row.taskId = r.taskId => row.status = "APPROVED"
          /\ pc = "done" => \E row \in Range(tasksTable) : row.taskId = r.taskId

\* A run completed in which a task was approved on its third review.
C14_Witness ==
  /\ pc = "done"
  /\ \E r \in Range(loopReturns) :
        /\ PassesOnAttempt(r, MaxIterations)
        /\ r.iterations[1].status = "needs_changes"
        /\ \E row \in Range(tasksTable) : row.taskId = r.taskId /\ row.status = "APPROVED"

\* ------------------------------------------------------------------ worker failure
\* C15: a failed worker call counts as one failed attempt: the task is called
\* again while attempts remain, and it is recorded rejected only when the
\* attempts made for it number maxIterations.
C15_WorkerFailureConsumesOneAttempt ==
  \A x \in DOMAIN reviewResults :
      (/\ ValidTaskSet
       /\ reviewResults[x].workerResult.status = "failed"
       /\ reviewResults[x].reviewResult.status = "rejected") =>
          Cardinality(CallsFor(reviewResults[x].workerResult.taskId)) = MaxIterations

\* ------------------------------------------------------------------ --voting
\* Values of --voting <strategy>: any string; one the help text names and
\* one it does not.
VotingOptions == {"committee:3", "best-of-three"}

\* runCmd called with --voting: options.voting is logged and not read again,
\* so the run is the run of Next.
InitVoting ==
  /\ options \in {[parallel |-> <<"2">>, voting |-> v] : v \in VotingOptions}
  /\ tasks \in TaskLists
  /\ InitRunState
  /\ callArgs = Null
  /\ callReturn = NoReturn

VotingSpec == InitVoting /\ [][Next]_vars

\* The strategies the help text of --voting and the README name, and the
\* number of candidates each asks for.
KnownVoting == {"self-consistency:3", "pair-debate", "committee:3", "committee:5"}
VotingCandidates(v) ==
  CASE v = "self-consistency:3" -> 3
    [] v = "pair-debate" -> 2
    [] v = "committee:3" -> 3
    [] v = "committee:5" -> 5
    [] OTHER -> 1

VotingGiven == "voting" \in DOMAIN options

\* The worker results produced for task t: the candidates a selection has.
Candidates(t) == {r \in Range(results) : r.taskId = t}

\* C16: with a voting strategy of n > 1 candidates, the result handed on for
\* a task is the best scored of its n candidates (ties: smallest payload, then
\* lowest strategyIndex). The code scores no worker result; what the claim
\* needs of it is stated: n candidates exist for every executed task and the
\* result handed on is one of them.
C16_VotingSelectsAmongCandidates ==
  (ValidTaskSet /\ VotingGiven /\ pc = "review") =>
      (VotingCandidates(options.voting) > 1 =>
          \A x \in DOMAIN workerResults :
              /\ Cardinality(Candidates(workerResults[x].taskId)) =
                     VotingCandidates(options.voting)
              /\ workerResults[x] \in Candidates(workerResults[x].taskId))

\* C17: a run with a --voting value that names no known strategy makes no
\* worker call and ends with a configuration error.
C17_UnknownVotingFailsFast ==
  (ValidTaskSet /\ VotingGiven) =>
      (options.voting \notin KnownVoting =>
          /\ workerCalls = <<>>
          /\ pc \in {"done", "exit"} => error.name = "ConfigurationError")

\* ------------------------------------------------------------------ SIGINT, SIGTERM
Signals == {"SIGINT", "SIGTERM"}

\* The exit codes of the process.on(sig) listeners in the order they are
\* registered: core/db.js is loaded by the imports of cli.ts, before cli.ts
\* registers its own. Each listener closes the database and calls process.exit.
SignalListeners(sig) == <<0, IF sig = "SIGINT" THEN 130 ELSE 143>>

\* The signal arrives while runCmd runs: the first listener ends the process
\* there and then. Nothing awaited returns any more, nothing more is written.
Signal(sig) ==
  /\ pc \notin {"done", "exit"}
  /\ exitCode' = SignalListeners(sig)[1]
  /\ pc' = "exit"
  /\ UNCHANGED <<callVars, allVars, options, tasks, parallelCount, error, execVars, reviewVars, saveVars>>

NextSignal ==
  \/ Next
  \/ \E sig \in Signals : Signal(sig)

SignalSpec == InitDefault /\ [][NextSignal]_vars

\* The process was ended by a signal listener.
Cancelled == pc = "exit" /\ \E sig \in Signals : exitCode \in Range(SignalListeners(sig))

\* C18: after a cancellation signal the tasks in flight finish their current
\* attempt and its outcome is recorded: when the process has ended, no worker
\* call is left unreturned, no review loop is left half-way, and every
\* returned result reached the results runCmd works on.
C18_CancellationFinishesInFlight ==
  (ValidTaskSet /\ Cancelled) =>
      /\ inFlight = {}
      /\ \A t \in TaskIdSet : Dispatched(t) => Finished(t)
      /\ it = 0

\* ------------------------------------------------------------------ end of the run
\* runCmd has returned or the process has exited.
RunEnded == pc \in {"done", "exit"}

\* The terminal category of task t, as far as the run gives it one.
Categories(t) ==
  {c \in {"DONE", "REJECTED", "BLOCKED"} :
      \/ c = "DONE" /\ TaskStatus(t) = "APPROVED"
      \/ c = "REJECTED" /\ TaskStatus(t) = "REJECTED"
      \/ c = "BLOCKED" /\ \E row \in Range(tasksTable) :
                              row.taskId = t /\ row.status = "BLOCKED"}

\* C19: when the run on a valid task set has ended, no task is left PENDING,
\* RUNNING or NEEDS_CHANGES: every task is in exactly one of DONE, REJECTED
\* and BLOCKED.
C19_EveryTaskEndsTerminal ==
  (ValidTaskSet /\ RunEnded) =>
      \A t \in TaskIdSet :
          /\ TaskStatus(t) \notin {"PENDING", "RUNNING", "NEEDS_CHANGES"}
          /\ Cardinality(Categories(t)) = 1
          /\ \A row \in Range(tasksTable) : row.status # "NEEDS_CHANGES"

\* ------------------------------------------------------------------ running a project again
\* `run --project p` is entered again after the last run ended: the run starts
\* afresh on the same spec; the tasks table and the project record are what
\* the earlier runs left. runCmd reads neither before it executes the tasks.
RunCmdAgain ==
  /\ pc \in {"done", "exit"}
  /\ Len(tasksTable) <= (MaxRuns - 1) * Len(tasks)
  /\ pc' = "start"
  /\ parallelCount' = NaN
  /\ error' = NoError
  /\ exitCode' = NotExited
  /\ sortedTasks' = <<>>
  /\ k' = 1
  /\ inFlight' = {}
  /\ results' = <<>>
  /\ workerCalls' = <<>>
  /\ workerResults' = <<>>
  /\ i' = 1
  /\ it' = 0
  /\ iterations' = <<>>
  /\ currentResult' = NoResult
  /\ loopReturns' = <<>>
  /\ reviewResults' = <<>>
  /\ j' = 1
  /\ UNCHANGED <<callVars, allVars, options, tasks, tasksTable, projectStatus, tracesTable>>

NextRerun ==
  \/ Next
  \/ RunCmdAgain

RerunSpec == InitDefault /\ [][NextRerun]_vars

\* The rows of the tasks table with task id t.
RowsOf(t) == {x \in DOMAIN tasksTable : tasksTable[x].taskId = t}

\* C20: after any sequence of completed runs of a project the tasks table
\* holds exactly one row per task id, and the row carries the status of the
\* task's latest outcome.
C20_OneRecordPerTask ==
  (ValidTaskSet /\ pc = "done") =>
      \A t \in TaskIdSet :
          /\ Cardinality(RowsOf(t)) = 1
          /\ \A x \in RowsOf(t) : \A y \in DOMAIN reviewResults :
                reviewResults[y].task = t =>
                    tasksTable[x].status = PersistedStatus(reviewResults[y].reviewResult.status)

\* ------------------------------------------------------------------ traces
\* The traces table is created by the migrations and declared in the schema;
\* no statement of runCmd, executeTasks, executeTask or runReviewLoop inserts
\* into it, so no action above changes tracesTable.

\* The events of task t in the traces table, in the order of the rows.
EventsOf(t) == SelectSeq(tracesTable, LAMBDA e : e.taskId = t)

\* C21: every status transition of a task is recorded as an event appended to
\* the traces table, in the order the transitions happen: a task that has left
\* PENDING has events, the last of which records its current status.
C21_TransitionsAreTraced ==
  ValidTaskSet =>
      \A t \in TaskIdSet :
          TaskStatus(t) # "PENDING" =>
              /\ EventsOf(t) # <<>>
              /\ EventsOf(t)[Len(EventsOf(t))].status = TaskStatus(t)

\* ------------------------------------------------------------------ allCmd
runVars == <<options, tasks, pc, parallelCount, error, exitCode, execVars, reviewVars, saveVars>>

\* allCmd is entered, with or without --dry-run; no command has run yet
\* ("idle": runCmd is not called yet).
InitAll ==
  /\ options = [parallel |-> <<"2">>]
  /\ tasks \in TaskLists
  /\ pc = "idle"
  /\ parallelCount = NaN
  /\ error = NoError
  /\ exitCode = NotExited
  /\ sortedTasks = <<>>
  /\ k = 1
  /\ inFlight = {}
  /\ results = <<>>
  /\ workerCalls = <<>>
  /\ workerResults = <<>>
  /\ i = 1
  /\ it = 0
  /\ iterations = <<>>
  /\ currentResult = NoResult
  /\ loopReturns = <<>>
  /\ reviewResults = <<>>
  /\ tasksTable = <<>>
  /\ j = 1
  /\ projectStatus = "COMPILED"
  /\ tracesTable = <<>>
  /\ callArgs = Null
  /\ callReturn = NoReturn
  /\ allPc = "start"
  /\ dryRun \in BOOLEAN
  /\ steps = <<>>
  /\ outcomes = <<>>

\* A command called by allCmd ends: it returns, or its catch calls
\* process.exit(code) and the process, allCmd with it, is gone.
StepEnds(ok, code, next) ==
  /\ outcomes' = Append(outcomes, ok)
  /\ IF ok THEN allPc' = next /\ UNCHANGED exitCode
     ELSE allPc' = "exited" /\ exitCode' = code

\* Step 1: await compileCmd(prdPath, {..., dryRun}).
AllCompileStart ==
  /\ allPc = "start"
  /\ steps' = Append(steps, "compile")
  /\ allPc' = "compile"
  /\ UNCHANGED <<callVars, runVars, dryRun, outcomes>>

\* AllCompileEnds had allCmd not returned on options.dryRun.
AllCompileEndsIgnoringDryRun(ok) ==
  /\ allPc = "compile"
  /\ StepEnds(ok, 1, "derive")
  /\ UNCHANGED <<callVars, options, tasks, pc, parallelCount, error, execVars, reviewVars,
                 saveVars, dryRun, steps>>

\* compileCmd ends (exit code 1 on failure); on options.dryRun allCmd returns.
AllCompileEnds(ok) ==
  /\ allPc = "compile"
  /\ StepEnds(ok, 1, IF dryRun THEN "finished" ELSE "derive")
  /\ UNCHANGED <<callVars, options, tasks, pc, parallelCount, error, execVars, reviewVars,
                 saveVars, dryRun, steps>>

\* The project name is options.project or derived from prdPath; when the
\* derived name is empty allCmd throws and its catch calls process.exit(1).
\* Step 2: await runCmd({project, parallel, voting, model, verbose}).
AllRunStart(derived) ==
  /\ allPc = "derive"
  /\ IF derived
     THEN /\ steps' = Append(steps, "run")
          /\ allPc' = "run"
          /\ pc' = "start"
          /\ UNCHANGED exitCode
     ELSE /\ allPc' = "exited"
          /\ exitCode' = 1
          /\ UNCHANGED <<steps, pc>>
  /\ UNCHANGED <<callVars, options, tasks, parallelCount, error, execVars, reviewVars,
                 saveVars, dryRun, outcomes>>

\* runCmd ends: it returned (pc = "done") or its catch called process.exit(2).
AllRunEnds ==
  /\ allPc = "run"
  /\ pc \in {"done", "exit"}
  /\ outcomes' = Append(outcomes, pc = "done")
  /\ allPc' = IF pc = "done" THEN "review" ELSE "exited"
  /\ UNCHANGED <<callVars, runVars, dryRun, steps>>

\* Step 3: await reviewCmd({project, maxIter, verbose}).
AllReviewStart ==
  /\ allPc = "review"
  /\ steps' = Append(steps, "review")
  /\ allPc' = "reviewing"
  /\ UNCHANGED <<callVars, runVars, dryRun, outcomes>>

\* reviewCmd ends (exit code 3 on failure).
AllReviewEnds(ok) ==
  /\ allPc = "reviewing"
  /\ StepEnds(ok, 3, "aggregate")
  /\ UNCHANGED <<callVars, options, tasks, pc, parallelCount, error, execVars, reviewVars,
                 saveVars, dryRun, steps>>

\* Step 4: await aggregateCmd({project, verbose}).
AllAggregateStart ==
  /\ allPc = "aggregate"
  /\ steps' = Append(steps, "aggregate")
  /\ allPc' = "aggregating"
  /\ UNCHANGED <<callVars, runVars, dryRun, outcomes>>

\* aggregateCmd ends (exit code 4 on failure); allCmd returns.
AllAggregateEnds(ok) ==
  /\ allPc = "aggregating"
  /\ StepEnds(ok, 4, "finished")
  /\ UNCHANGED <<callVars, options, tasks, pc, parallelCount, error, execVars, reviewVars,
                 saveVars, dryRun, steps>>

NextAll ==
  \/ AllCompileStart
  \/ \E ok \in BOOLEAN : AllCompileEnds(ok)
  \/ \E derived \in BOOLEAN : AllRunStart(derived)
  \/ Next
  \/ AllRunEnds
  \/ AllReviewStart
  \/ \E ok \in BOOLEAN : AllReviewEnds(ok)
  \/ AllAggregateStart
  \/ \E ok \in BOOLEAN : AllAggregateEnds(ok)

AllSpec == InitAll /\ [][NextAll]_vars

\* The steps of the pipeline in their order.
Pipeline == <<"compile", "run", "review", "aggregate">>

\* C22: allCmd starts its steps in the order compile, run, review, aggregate,
\* each only after the one before it ended without error: a failed step is the
\* last one started, and with --dry-run no step after compile is started.
C22_PipelineInOrder ==
  /\ Len(steps) <= Len(Pipeline)
  /\ \A x \in DOMAIN steps : steps[x] = Pipeline[x]
  /\ Len(outcomes) <= Len(steps)
  /\ \A x \in DOMAIN steps : x > 1 => (x - 1 \in DOMAIN outcomes /\ outcomes[x - 1])
  /\ dryRun => Len(steps) <= 1
  /\ allPc = "finished" => \A x \in DOMAIN outcomes : outcomes[x]

\* The run step failed after a successful compile, and nothing was started
\* after it.
C22_Witness ==
  /\ allPc = "exited"
  /\ steps = <<"compile", "run">>
  /\ outcomes = <<TRUE, FALSE>>
  /\ exitCode = 2

\* ------------------------------------------------------------------ outcome of the run
\* Every task of the spec ended approved.
AllApproved == \A t \in TaskIdSet : Outcome(t, "approved")

\* C23: when the run has ended, the project is marked ASSEMBLED if and only
\* if every task ended approved; otherwise the run ends as a partial run:
\* runCmd returns and the project is marked RUNNING.
C23_AssembledIffAllApproved ==
  (ValidTaskSet /\ RunEnded) =>
      /\ projectStatus = "ASSEMBLED" <=> AllApproved
      /\ ~AllApproved => (pc = "done" /\ projectStatus = "RUNNING")

\* ------------------------------------------------------------------ results and tasks
\* C24: the worker result runCmd reviews and records for spec.tasks[x] is the
\* result of executing that task: workerResults[x].taskId = spec.tasks[x].id.
C24_ResultBelongsToTask ==
  ValidTaskSet =>
      /\ \A x \in DOMAIN workerResults : workerResults[x].taskId = tasks[x].id
      /\ \A x \in DOMAIN reviewResults :
            reviewResults[x].workerResult.taskId = reviewResults[x].task

\* ------------------------------------------------------------------ order of execution
\* The position of task t in the order topologicalSort returned (0: absent).
PositionOf(t) ==
  IF \E x \in DOMAIN sortedTasks : sortedTasks[x].id = t
  THEN CHOOSE x \in DOMAIN sortedTasks : sortedTasks[x].id = t
  ELSE 0

\* The order holds every task exactly once, each after the tasks of its dependsOn.
OrderedByDependsOn ==
  /\ Len(sortedTasks) = Len(tasks)
  /\ \A t \in TaskIdSet :
        /\ Cardinality({x \in DOMAIN sortedTasks : sortedTasks[x].id = t}) = 1
        /\ \A d \in DependsOn(t) \cap TaskIdSet : PositionOf(d) < PositionOf(t)

\* C25: for every acyclic task list topologicalSort returns an order that
\* holds every task exactly once and puts each task after every task named in
\* its dependsOn.
C25_SortOrdersByDependsOn ==
  (GraphBuilt /\ ~HasCycle) => (error = NoError /\ OrderedByDependsOn)

\* ------------------------------------------------------------------ persisted status
\* C26: every status runCmd writes to the tasks table, whatever the final
\* review status, is one the table admits, so saving the results never
\* violates the table's status constraint.
C26_PersistedStatusAdmitted ==
  ValidTaskSet =>
      /\ \A x \in DOMAIN reviewResults :
            PersistedStatus(reviewResults[x].reviewResult.status) \in TasksStatusCheck
      /\ error # SqliteConstraint

\* What one call of runReviewLoop returned has the shape the claim describes.
LoopResultShape(r) ==
  LET n == Len(r.iterations)
  IN /\ n >= 1
     /\ r.finalReview = r.iterations[n]
     /\ r.approved <=> (r.finalReview.status = "approved")
     /\ \A m \in 1..(n - 1) : r.iterations[m].status = "needs_changes"

MaxEntities == 3

\* A function of the program called on its own with arguments drawn from
\* argSets; nothing else of the program runs.
InitCall(argSets) ==
  /\ InitRunState
  /\ options = [parallel |-> <<"2">>]
  /\ tasks = <<>>
  /\ callArgs \in argSets
  /\ callReturn = NoReturn

DigitChar(d) ==
  CASE d = 0 -> "0" [] d = 1 -> "1" [] d = 2 -> "2" [] d = 3 -> "3" [] d = 4 -> "4"
    [] d = 5 -> "5" [] d = 6 -> "6" [] d = 7 -> "7" [] d = 8 -> "8" [] d = 9 -> "9"

\* String(n) of a natural number: its decimal digits, as characters.
RECURSIVE StringOf(_)
StringOf(n) ==
  IF n < 10 THEN <<DigitChar(n)>>
  ELSE Append(StringOf(n \div 10), DigitChar(n % 10))

\* s.padStart(targetLength, fill) for a one-character fill: s is returned as it
\* is when it is long enough.
RECURSIVE padStart(_, _, _)
padStart(s, targetLength, fill) ==
  IF Len(s) >= targetLength THEN s
  ELSE padStart(<<fill>> \o s, targetLength, fill)

\* `T-${String(counter).padStart(3, "0")}`
FormatTaskId(counter) == <<"T", "-">> \o padStart(StringOf(counter), 3, "0")

\* array.slice(-n): the last n elements; slice(-0) is slice(0), the whole array.
SliceFromEnd(s, n) ==
  IF n = 0 \/ n >= Len(s) THEN s
  ELSE SubSeq(s, Len(s) - n + 1, Len(s))

\* [t.id for t in s]
Ids(s) == [x \in DOMAIN s |-> s[x].id]

\* generateEntityTasks had the service task take the id of the model task.
generateEntityTasksOneId(startCounter) ==
  LET model == [id |-> FormatTaskId(startCounter),
                dependsOn |-> << <<"T", "-", "0", "0", "1">> >>]
      service == [id |-> FormatTaskId(startCounter), dependsOn |-> <<model.id>>]
  IN <<model, service>>

\* The two tasks of an entity: the model task depends on the literal "T-001",
\* the service task on the model task.
generateEntityTasks(startCounter) ==
  LET model == [id |-> FormatTaskId(startCounter),
                dependsOn |-> << <<"T", "-", "0", "0", "1">> >>]
      service == [id |-> FormatTaskId(startCounter + 1), dependsOn |-> <<model.id>>]
  IN <<model, service>>

\* entityApi.entities.forEach: the tasks of each entity are pushed and
\* taskCounter advances by their number.
RECURSIVE forEachEntity(_, _, _)
forEachEntity(taskList, taskCounter, remaining) ==
  IF remaining = 0 THEN [tasks |-> taskList, taskCounter |-> taskCounter]
  ELSE LET entityTasks == generateEntityTasks(taskCounter)
       IN forEachEntity(taskList \o entityTasks, taskCounter + Len(entityTasks),
                        remaining - 1)

\* tasks.push of a task with id `T-${...taskCounter++...}` when cond holds.
PushTask(cond, g, dependsOn) ==
  IF cond
  THEN [tasks |-> Append(g.tasks, [id |-> FormatTaskId(g.taskCounter),
                                    dependsOn |-> dependsOn]),
        taskCounter |-> g.taskCounter + 1]
  ELSE g

\* generateTasks for in.entities entities, in.apis APIs, in.security security
\* constraints and the two config flags: the ids and dependsOn of its tasks.
generateTasks(in) ==
  LET setup == PushTask(TRUE, [tasks |-> <<>>, taskCounter |-> 1], <<>>)
      entity == forEachEntity(setup.tasks, setup.taskCounter, in.entities)
      api == PushTask(in.apis > 0, entity,
                      Ids(SliceFromEnd(entity.tasks, in.entities)))
      security == PushTask(in.security > 0, api, <<api.tasks[1].id>>)
      testing == PushTask(in.includeTestTasks, security,
                          Ids(SliceFromEnd(security.tasks, 3)))
      docs == PushTask(in.includeDocumentationTasks, testing,
                       <<testing.tasks[Len(testing.tasks)].id>>)
  IN docs.tasks

GenerateArgs ==
  [entities : 0..MaxEntities, apis : 0..1, security : 0..1,
   includeTestTasks : BOOLEAN, includeDocumentationTasks : BOOLEAN]

InitGenerate == InitCall(GenerateArgs)

GenerateTasks ==
  /\ callReturn = NoReturn
  /\ callReturn' = Returned(generateTasks(callArgs))
  /\ UNCHANGED <<callArgs, allVars, runVars>>

GenerateSpec == InitGenerate /\ [][GenerateTasks]_vars

\* C28: the task list generateTasks returns is a valid DAG: the ids are
\* pairwise distinct and every id in a task's dependsOn is the id of a task
\* earlier in the list.
C28_GeneratedTasksFormDag ==
  callReturn.called =>
    LET g == callReturn.value
    IN /\ \A x, y \in DOMAIN g : x # y => g[x].id # g[y].id
       /\ \A x \in DOMAIN g : \A d \in DOMAIN g[x].dependsOn :
            \E y \in 1..(x - 1) : g[y].id = g[x].dependsOn[d]

\* Two or more entities and every optional task: the list goes past T-009.
C28_Witness ==
  /\ callReturn.called
  /\ callArgs.entities >= 2
  /\ Len(callReturn.value) = 1 + 2 * callArgs.entities + 4
  /\ Len(callReturn.value) >= 10
  /\ \E x \in DOMAIN callReturn.value :
       callReturn.value[x].id = <<"T", "-", "0", "1", "0">>

\* ------------------------------------------- ReviewerAgent.reviewTask: score
ScoreMargin == 3

\* Math.min and Math.max of two numbers.
MathMin(a, b) == IF a < b THEN a ELSE b
MathMax(a, b) == IF a > b THEN a ELSE b

\* Whether reviewData.score is truthy: undefined (no such property), NaN and 0
\* are not.
ScoreTruthy(reviewData) ==
  /\ "score" \in DOMAIN reviewData
  /\ ~reviewData.score.nan
  /\ reviewData.score.value # 0

\* score: Math.max(0, Math.min(100, reviewData.score || 50))
reviewScore(reviewData) ==
  LET given == IF ScoreTruthy(reviewData) THEN reviewData.score.value ELSE 50
  IN MathMax(0, MathMin(100, given))

\* What the reviewer's answer parses to: a numeric score within or outside
\* 0..100, a score that is not a number, or no score.
ReviewData ==
  {[status |-> "approved", score |-> Number(v)] :
      v \in (0 - ScoreMargin)..(100 + ScoreMargin)}
    \cup {[status |-> "approved", score |-> NaN], [status |-> "approved"]}

InitScore == InitCall(ReviewData)

ReviewTaskScore ==
  /\ callReturn = NoReturn
  /\ callReturn' = Returned(reviewScore(callArgs))
  /\ UNCHANGED <<callArgs, allVars, runVars>>

ScoreSpec == InitScore /\ [][ReviewTaskScore]_vars

\* The parsed score s clamped to 0..100, as the claim states it.
Clamped(s) == IF s < 0 THEN 0 ELSE IF s > 100 THEN 100 ELSE s

\* C29: the score reviewTask returns is within 0..100 and is the reviewer's
\* parsed numeric score clamped to that range; a parsed score within 0..100,
\* 0 included, is returned unchanged.
C29_ScoreIsClampedParsedScore ==
  callReturn.called =>
    /\ callReturn.value \in 0..100
    /\ ("score" \in DOMAIN callArgs /\ ~callArgs.score.nan) =>
         callReturn.value = Clamped(callArgs.score.value)

\* ------------------------------------------------------- isReviewPassing
MaxIssues == 2
MaxBlockers == 1

\* ReviewIssueSchema: severity
Severities == {"low", "medium", "high", "critical"}

SeqsUpTo(S, n) == UNION {[1..len -> S] : len \in 0..n}

\* Reports as ReviewReportSchema declares them, with or without the optional
\* score; of an issue only the severity is kept.
ReviewReports ==
  LET base == [pass : BOOLEAN,
               issues : SeqsUpTo([severity : Severities], MaxIssues),
               blockers : SeqsUpTo({"blocker"}, MaxBlockers)]
  IN base \cup {[pass |-> r.pass, issues |-> r.issues, blockers |-> r.blockers,
                 score |-> v] : r \in base, v \in {0, 69, 70, 100}}

\* ReviewConfigSchema: strictMode and minimumScore (default 70).
ReviewConfigs == [strictMode : BOOLEAN, minimumScore : {0, 70, 100}]

\* error.message of the Error given to createFailedReviewReport.
ErrorMessages == {"", "task failed"}

\* createFailedReviewReport(taskId, attempt, error)
createFailedReviewReport(message) ==
  [pass |-> FALSE, issues |-> <<[severity |-> "critical"]>>, blockers |-> <<message>>]

\* isReviewPassing had no check for critical issues.
isReviewPassingWithCritical(report, config) ==
  IF ~report.pass THEN FALSE
  ELSE IF "score" \in DOMAIN report /\ report.score < config.minimumScore THEN FALSE
  ELSE IF Len(report.blockers) > 0 THEN FALSE
  ELSE IF config.strictMode /\ Len(report.issues) > 0 THEN FALSE
  ELSE TRUE

\* isReviewPassing(report, config), return by return.
isReviewPassing(report, config) ==
  IF ~report.pass THEN FALSE
  ELSE IF "score" \in DOMAIN report /\ report.score < config.minimumScore THEN FALSE
  ELSE IF Len(report.blockers) > 0 THEN FALSE
  ELSE IF config.strictMode /\ Len(report.issues) > 0 THEN FALSE
  ELSE IF Len(SelectSeq(report.issues, LAMBDA issue : issue.severity = "critical")) > 0
       THEN FALSE
  ELSE TRUE

\* isReviewPassing is called on a given report, or on the report that
\* createFailedReviewReport builds from an error.
InitPassing ==
  InitCall([report : ReviewReports, config : ReviewConfigs]
             \cup [error : ErrorMessages, config : ReviewConfigs])

CreateFailedReviewReport ==
  /\ callReturn = NoReturn
  /\ "report" \notin DOMAIN callArgs
  /\ callArgs' = [error |-> callArgs.error, config |-> callArgs.config,
                  report |-> createFailedReviewReport(callArgs.error)]
  /\ UNCHANGED <<callReturn, allVars, runVars>>

IsReviewPassing ==
  /\ callReturn = NoReturn
  /\ "report" \in DOMAIN callArgs
  /\ callReturn' = Returned(isReviewPassing(callArgs.report, callArgs.config))
  /\ UNCHANGED <<callArgs, allVars, runVars>>

NextPassing == CreateFailedReviewReport \/ IsReviewPassing

PassingSpec == InitPassing /\ [][NextPassing]_vars

\* C30: isReviewPassing returns true only for a report with pass = true, no
\* blockers, no critical issue, no issue at all in strict mode, and a score
\* (when there is one) not below minimumScore; a report built by
\* createFailedReviewReport is rejected under every configuration.
C30_PassingOnlyForCleanReports ==
  callReturn.called =>
    LET report == callArgs.report
        config == callArgs.config
    IN /\ callReturn.value =>
            /\ report.pass
            /\ report.blockers = <<>>
            /\ \A x \in DOMAIN report.issues : report.issues[x].severity # "critical"
            /\ config.strictMode => report.issues = <<>>
            /\ "score" \in DOMAIN report => report.score >= config.minimumScore
       /\ "error" \in DOMAIN callArgs => ~callReturn.value

\* A report with a high-severity issue and a score equal to minimumScore
\* passes outside strict mode.
C30_Witness ==
  /\ callReturn.called
  /\ callReturn.value
  /\ \E x \in DOMAIN callArgs.report.issues :
       callArgs.report.issues[x].severity = "high"
  /\ "score" \in DOMAIN callArgs.report
  /\ callArgs.report.score = callArgs.config.minimumScore
====
